---- MODULE Spec2Model ----
(***************************************************************************)
(* Verification model of the SPU API:                                      *)
(*   - Key::compileKey        (src/libspu/key.hpp)                         *)
(*   - Simulator              (src/simulator/Simulator.cpp)                *)
(*   - BaseStructure          (src/libspu/base_structure.hpp)              *)
(*   - execute_cmd            (src/spudrv/cmdexec.c)                       *)
(*                                                                         *)
(* The specifications of the module: SpecKey (key compilation), SpecSim    *)
(* (simulation backend), SpecHw (facade over the driver), Spec (the        *)
(* program over either backend), SpecCmd (one execute_cmd call, statement  *)
(* by statement), SpecCmdLive (SpecCmd with the calling thread running)    *)
(* and SpecBus (two execute_cmd calls on one bus).                         *)
(***************************************************************************)
EXTENDS Integers, Sequences, FiniteSets, TLC

VARIABLES
    \* ---- key compilation (key.hpp) ----
    fields_len_vec,      \* Key::fields_len_vec, the schema
    fields_data_vector,  \* the value set handed to compileKey
    key,                 \* the caller's u32 key[SPU_WEIGHT]
    key_before,          \* what key[] held when compileKey was entered
    kret,                \* compileKey's return value ("none" before it returns)
    kpc                  \* "idle" (other specifications), "call", "done"

kvars == <<fields_len_vec, fields_data_vector, key, key_before, kret, kpc>>

VARIABLES
    \* ---- simulation backend (Simulator.cpp) ----
    gsid_static,         \* getNextGsid's `static gsid_t gsid`
    globalStructures,    \* map<gsid_t, map<key_t, value_t>*>: gsid -> map pointer
    sim_heap,            \* the map<key_t, value_t> objects, by pointer
    sims,                \* the Simulator objects: [live, gsid, data]
    sim_last,            \* the last operation and what it returned
    sim_inserted,        \* history: per map, the value last inserted for each key not deleted since
    sim_issued,          \* history: the identifiers getNextGsid returned, in order
    sim_destroyed        \* history: the identifiers deleteStructure was called for

svars == <<gsid_static, globalStructures, sim_heap, sims, sim_last,
           sim_inserted, sim_issued, sim_destroyed>>

VARIABLES
    \* ---- facade over the driver (base_structure.hpp, cmdexec.c) ----
    world,               \* driver registry and device: [gsids, next, dev]
    structs,             \* the BaseStructure objects: [live, gsid, power]
    hw_last              \* the last facade operation and what it returned

hvars == <<world, structs, hw_last>>

VARIABLES
    \* ---- one execute_cmd call, statement by statement (cmdexec.c) ----
    x_pc,                \* where the call is: "idle" (other specifications), "entry",
                         \* "adds", "init_w", "init_r", "write", "poll", "read", "free",
                         \* "returned", "oops" (kernel oops: NULL result buffer written)
    x_cmd,               \* the command buffer handed in: [cmd, gsid, gsid_a, gsid_b, gsid_r, key, val]
    x_env,               \* the call's environment: [fail (kmallocs that return NULL), wild]
    x_world,             \* identifier registry: [gsids, next]
    x_res,               \* *res_buf: [null, buf]
    x_w,                 \* pci_burst_w as init_burst_w left it: [err, burst]
    x_r,                 \* pci_burst_r as init_burst_r left it: [err, addrs, data]
    x_ret,               \* execute_cmd's return value ("none" before it returns)
    x_heap,              \* the kmalloc'ed buffers not yet kfree'd
    x_ever,              \* history: the buffers kmalloc returned during the call
    x_bus,               \* history: the bus events of the call, in order
    x_spu                \* the device: [dev, regs, ready]

xvars == <<x_pc, x_cmd, x_env, x_world, x_res, x_w, x_r, x_ret, x_heap, x_ever, x_bus, x_spu>>

\* Which backend the program was built over: "sim", "hw" ("none": key
\* compilation only, "drv": the driver's executor alone).
VARIABLE backend

VARIABLES
    \* ---- two execute_cmd calls on one bus (cmdexec.c) ----
    b_serial,            \* whether the callers take one external lock around execute_cmd
    b_lock,              \* the external lock: its holder, 0 when free
    b_pc,                \* per call: "idle", "write", "poll", "read", "done"
    b_cmd,               \* per call: the command buffer handed in
    b_spu,               \* the device: [dev, regs, ready, pending, by]
    b_bus,               \* history: the burst writes and burst reads, <<call, event>>
    b_res                \* per call: [buf (*res_buf), foreign (history: the registers
                         \* decoded were produced by another call's command)]

bvars == <<b_serial, b_lock, b_pc, b_cmd, b_spu, b_bus, b_res>>

vars == <<kvars, svars, hvars, xvars, bvars, backend>>

(***************************************************************************)
(* Status codes and sizes.                                                 *)
(***************************************************************************)
OK  == "OK"
ERR == "ERR"

\* Number of 32-bit words of a key (spu.h).
SPU_WEIGHT == 2

\* Width of a u32.
WordBits == 32

\* ---- bounds of the key-compilation inputs ----
MaxFields == 3
MaxVals   == 2

(***************************************************************************)
(* A u32 is the set of its bit positions that are 1.                       *)
(***************************************************************************)
BitPos == 0 .. (WordBits - 1)

Word0 == {}

\* u32 x << s for 0 <= s < 32: bits shifted past bit 31 are lost.
ShlDef(w, s) == {b + s : b \in w} \cap BitPos

\* u32 x >> s for 0 <= s < 32.
ShrDef(w, s) == {b - s : b \in {x \in w : x >= s}}

\* The outcomes of `x << s` on a u32.  A count of 32 or more is undefined:
\* the build either uses the low five bits of the count or yields 0.
ShlOutcomes(w, s) ==
    IF s < WordBits THEN {ShlDef(w, s)}
    ELSE {ShlDef(w, s % WordBits), Word0}

\* The outcomes of `x >>= (a - b)` with a, b u32.  The count is (a - b) mod 2^32;
\* it is below 32 exactly when 0 <= a - b < 32.
ShrSubOutcomes(w, a, b) ==
    IF a - b >= 0 /\ a - b < WordBits THEN {ShrDef(w, a - b)}
    ELSE {ShrDef(w, (a - b) % WordBits), Word0}

SeqsUpTo(S, n) == UNION {[1 .. m -> S] : m \in 0 .. n}

(***************************************************************************)
(* Key<FieldNameType> (key.hpp).                                           *)
(***************************************************************************)
SchemaNames == {"A", "B"}
ValueNames  == {"A", "B", "C"}
Widths      == {20, 32}
DataWords   == {BitPos, {5}}

\* FieldLengthStruct and FieldDataStruct.
FieldLengthStruct == [name : SchemaNames, length : Widths]
FieldDataStruct   == [name : ValueNames, data : DataWords]

KeyIdx  == 0 .. (SPU_WEIGHT - 1)
ZeroKey == [w \in KeyIdx |-> Word0]
\* A key array that was not cleared by the caller (stale words).
StaleKey == [w \in KeyIdx |-> {4 + w, 30}]
KeyArrays == {ZeroKey, StaleKey}

\* Key::mask: len low bits set (len <= 32).
mask(len) == {i \in BitPos : i < len}

\* Mutant: a later entry of the same name replaces an earlier one.
RECURSIVE find_data_by_name_Last(_, _)
find_data_by_name_Last(fdv, name) ==
    IF fdv = <<>> THEN Word0
    ELSE IF Head(fdv).name = name /\ \A i \in 2 .. Len(fdv) : fdv[i].name # name
    THEN Head(fdv).data
    ELSE find_data_by_name_Last(Tail(fdv), name)

\* Key::find_data_by_name: data of the first entry with that name, else 0.
RECURSIVE find_data_by_name(_, _)
find_data_by_name(fdv, name) ==
    IF fdv = <<>> THEN Word0
    ELSE IF Head(fdv).name = name THEN Head(fdv).data
    ELSE find_data_by_name(Tail(fdv), name)

\* One iteration of the loop of Key::compileKey on the loop state
\* st = [key, shift, weight]; the set of states the iteration can end in.
CompileField(st, fls, fdv) ==
    LET field_data == find_data_by_name(fdv, fls.name)
        field_mask == mask(fls.length)
        field      == field_data \cap field_mask
        prev_shift == st.shift
        shift1     == st.shift + fls.length
    IN  UNION {
          LET key1 == [st.key EXCEPT ![st.weight] = @ \cup shifted]
          IN  IF shift1 >= WordBits /\ st.weight < SPU_WEIGHT - 1
              THEN LET shift2  == shift1 - WordBits
                       weight2 == st.weight + 1
                       portion == mask(shift2)
                   IN  { [key    |-> [key1 EXCEPT ![weight2] = @ \cup (field2 \cap portion)],
                          shift  |-> shift2,
                          weight |-> weight2]
                         : field2 \in ShrSubOutcomes(field, fls.length, prev_shift) }
              ELSE { [key |-> key1, shift |-> shift1, weight |-> st.weight] }
          : shifted \in ShlOutcomes(field, st.shift) }

RECURSIVE CompileLoop(_, _, _)
CompileLoop(sts, flv, fdv) ==
    IF flv = <<>> THEN sts
    ELSE CompileLoop(UNION {CompileField(st, Head(flv), fdv) : st \in sts}, Tail(flv), fdv)

\* Key::compileKey: the key arrays the call can leave in key[], given what
\* key[] held on entry (the code ORs into it and never clears it).
compileKey(key0, flv, fdv) ==
    {st.key : st \in CompileLoop({[key |-> key0, shift |-> 0, weight |-> 0]}, flv, fdv)}

\* ---- decoding helpers used to state the packing claims ----
RECURSIVE TotalWidth(_)
TotalWidth(flv) == IF flv = <<>> THEN 0 ELSE Head(flv).length + TotalWidth(Tail(flv))

\* Cumulative bit offset of field i of the schema.
FieldOffset(flv, i) == TotalWidth(SubSeq(flv, 1, i - 1))

\* Bit p of the SPU_WEIGHT-word key, word 0 lowest.
BitAt(k, p) == (p % WordBits) \in k[p \div WordBits]

\* The len bits of the key starting at bit off, as a word.
ExtractField(k, off, len) == {b \in 0 .. (len - 1) : BitAt(k, off + b)}

(***************************************************************************)
(* Simulator (Simulator.cpp): an ordered map per structure identifier.     *)
(***************************************************************************)
\* ---- bounds of the simulation ----
MaxGsid == 2

SimKeys   == {1, 2, 3}
SimValues == {10, 20}
NoKey == 0
NoVal == 0

\* The Simulator objects the program holds at a time.
SimIds == {1, 2}
EmptyMap == [k \in {} |-> NoVal]

\* pair_t: {key, value} is built with status OK, pair_t(ERR) carries no pair.
PairOf(k, v) == [key |-> k, value |-> v, status |-> OK]
PairErr == [key |-> NoKey, value |-> NoVal, status |-> ERR]

\* Mutant: the counter is not static, every call starts from 0 again.
getNextGsid_NotStatic(gsid) == 1

\* getNextGsid: ++gsid; return gsid.
getNextGsid(gsid) == gsid + 1

\* Simulator::createStructure
Simulator_createStructure(gsid) == [gsid |-> getNextGsid(gsid), rslt |-> OK]

\* Simulator::deleteStructure: the table without the identifier, and the result.
Simulator_deleteStructure(table, gsid) ==
    [table |-> [g \in DOMAIN table \ {gsid} |-> table[g]],
     res   |-> [rslt |-> OK, power |-> 0]]

\* Simulator::get_power: _data->size()
\* Mutant: the power counts the distinct values held.
Simulator_get_power_CountValues(data) == Cardinality({data[x] : x \in DOMAIN data})

Simulator_get_power(data) == Cardinality(DOMAIN data)

\* Mutant: map::insert semantics, a key already present keeps its value.
Simulator_insert_KeepOld(data, k, v) ==
    [x \in DOMAIN data \cup {k} |-> IF x \in DOMAIN data THEN data[x] ELSE v]

\* Simulator::insert: (*_data)[key] = value
Simulator_insert(data, k, v) ==
    [x \in DOMAIN data \cup {k} |-> IF x = k THEN v ELSE data[x]]

\* Simulator::del: _data->erase(key)
\* Mutant: the erase takes every key up to k with it.
Simulator_del_UpTo(data, k) == [x \in {y \in DOMAIN data : y > k} |-> data[x]]

Simulator_del(data, k) == [x \in DOMAIN data \ {k} |-> data[x]]

\* Simulator::search
Simulator_search(data, k) ==
    IF k \in DOMAIN data THEN PairOf(k, data[k]) ELSE PairErr

\* operator< of std::pair<const key_t, value_t>, on <<key, value>>.
PairLess(p, q) == p[1] < q[1] \/ (p[1] = q[1] /\ p[2] < q[2])

Elements(data) == {<<k, data[k]>> : k \in DOMAIN data}

\* Mutant: the element with the smallest value instead of the smallest key.
Simulator_min_ByValue(data) ==
    IF DOMAIN data = {} THEN PairErr
    ELSE LET it == CHOOSE p \in Elements(data) :
                      \A q \in Elements(data) : ~PairLess(<<q[2], q[1]>>, <<p[2], p[1]>>)
         IN  PairOf(it[1], it[2])

\* Simulator::min: std::min_element over the map's elements
Simulator_min(data) ==
    IF DOMAIN data = {} THEN PairErr
    ELSE LET it == CHOOSE p \in Elements(data) :
                      \A q \in Elements(data) : ~PairLess(q, p)
         IN  PairOf(it[1], it[2])

\* Simulator::max: std::max_element over the map's elements
Simulator_max(data) ==
    IF DOMAIN data = {} THEN PairErr
    ELSE LET it == CHOOSE p \in Elements(data) :
                      \A q \in Elements(data) : ~PairLess(p, q)
         IN  PairOf(it[1], it[2])

NoSim == [live |-> FALSE, gsid |-> 0, data |-> 0]
NoRes == [key |-> NoKey, value |-> NoVal, status |-> OK, power |-> 0]
NoOp  == [op |-> "none", inst |-> 0, key |-> NoKey, value |-> NoVal,
          was |-> 0, res |-> NoRes]

LiveSims == {i \in SimIds : sims[i].live}

\* The map objects some live Simulator still points to; the others are
\* unreachable (the code never deletes them) and are left out of the state.
Reachable(ss) == {ss[i].data : i \in {j \in SimIds : ss[j].live}}
Restrict(f, S) == [x \in DOMAIN f \cap S |-> f[x]]

PairRes(p) == [key |-> p.key, value |-> p.value, status |-> p.status, power |-> 0]

\* Every simulator step: the program runs over the simulator; nothing else moves.
SimFrame == backend = "sim" /\ UNCHANGED <<kvars, hvars, xvars, bvars, backend>>

SimIdle ==
    /\ gsid_static = 0
    /\ globalStructures = EmptyMap
    /\ sim_heap = EmptyMap
    /\ sims = [i \in SimIds |-> NoSim]
    /\ sim_last = NoOp
    /\ sim_inserted = EmptyMap
    /\ sim_issued = <<>>
    /\ sim_destroyed = {}

\* Simulator::Simulator(): BaseStructure() obtains the identifier from
\* createStructure(); the constructor body attaches the map of that identifier.
SimCreate(i) ==
    /\ SimFrame
    /\ ~sims[i].live
    /\ gsid_static < MaxGsid
    /\ LET adds == Simulator_createStructure(gsid_static)
           gsid == adds.gsid
           found == gsid \in DOMAIN globalStructures
           data == IF found THEN globalStructures[gsid] ELSE gsid
       IN  /\ gsid_static' = gsid
           /\ sims' = [sims EXCEPT ![i] = [live |-> TRUE, gsid |-> gsid, data |-> data]]
           /\ globalStructures' =
                IF found THEN globalStructures
                ELSE [g \in DOMAIN globalStructures \cup {gsid} |->
                        IF g = gsid THEN data ELSE globalStructures[g]]
           /\ sim_heap' =
                IF found THEN sim_heap
                ELSE [p \in DOMAIN sim_heap \cup {data} |->
                        IF p = data THEN EmptyMap ELSE sim_heap[p]]
           /\ sim_inserted' =
                IF found THEN sim_inserted
                ELSE [p \in DOMAIN sim_inserted \cup {data} |->
                        IF p = data THEN EmptyMap ELSE sim_inserted[p]]
           /\ sim_issued' = Append(sim_issued, gsid)
           /\ sim_last' = [NoOp EXCEPT !.op = "create", !.inst = i,
                                       !.res = [NoRes EXCEPT !.status = adds.rslt]]
    /\ UNCHANGED sim_destroyed

\* Mutant: the copy owns a map of its own, filled from the original's.
SimCopy_Deep(i, j) ==
    /\ SimFrame
    /\ sims[i].live /\ ~sims[j].live
    /\ LET p == 100 + j IN
       /\ sims' = [sims EXCEPT ![j] = [sims[i] EXCEPT !.data = p]]
       /\ sim_heap' = [q \in DOMAIN sim_heap \cup {p} |->
                         IF q = p THEN sim_heap[sims[i].data] ELSE sim_heap[q]]
       /\ sim_inserted' = [q \in DOMAIN sim_inserted \cup {p} |->
                         IF q = p THEN sim_inserted[sims[i].data] ELSE sim_inserted[q]]
    /\ sim_last' = [NoOp EXCEPT !.op = "copy", !.inst = j]
    /\ UNCHANGED <<gsid_static, globalStructures, sim_issued, sim_destroyed>>

\* Simulator::Simulator(Simulator &obj) = default: same identifier, same map.
SimCopy(i, j) ==
    /\ SimFrame
    /\ sims[i].live /\ ~sims[j].live
    /\ sims' = [sims EXCEPT ![j] = sims[i]]
    /\ sim_last' = [NoOp EXCEPT !.op = "copy", !.inst = j]
    /\ UNCHANGED <<gsid_static, globalStructures, sim_heap, sim_inserted,
                   sim_issued, sim_destroyed>>

SimInsert(i, k, v) ==
    /\ SimFrame
    /\ sims[i].live
    /\ LET p == sims[i].data IN
       /\ sim_heap' = [sim_heap EXCEPT ![p] = Simulator_insert(@, k, v)]
       /\ sim_inserted' = [sim_inserted EXCEPT ![p] =
              [x \in DOMAIN @ \cup {k} |-> IF x = k THEN v ELSE @[x]]]
       /\ sim_last' = [NoOp EXCEPT !.op = "insert", !.inst = i, !.key = k, !.value = v,
                                   !.res = [NoRes EXCEPT !.status = OK]]
    /\ UNCHANGED <<gsid_static, globalStructures, sims, sim_issued, sim_destroyed>>

SimDel(i, k) ==
    /\ SimFrame
    /\ sims[i].live
    /\ LET p == sims[i].data IN
       /\ sim_heap' = [sim_heap EXCEPT ![p] = Simulator_del(@, k)]
       /\ sim_inserted' = [sim_inserted EXCEPT ![p] = Restrict(@, DOMAIN @ \ {k})]
       /\ sim_last' = [NoOp EXCEPT !.op = "del", !.inst = i, !.key = k,
                                   !.was = Cardinality(DOMAIN sim_inserted[p]),
                                   !.res = [NoRes EXCEPT !.status = OK]]
    /\ UNCHANGED <<gsid_static, globalStructures, sims, sim_issued, sim_destroyed>>

SimSearch(i, k) ==
    /\ SimFrame
    /\ sims[i].live
    /\ sim_last' = [NoOp EXCEPT !.op = "search", !.inst = i, !.key = k,
                                !.res = PairRes(Simulator_search(sim_heap[sims[i].data], k))]
    /\ UNCHANGED <<gsid_static, globalStructures, sim_heap, sims, sim_inserted,
                   sim_issued, sim_destroyed>>

SimMin(i) ==
    /\ SimFrame
    /\ sims[i].live
    /\ sim_last' = [NoOp EXCEPT !.op = "min", !.inst = i,
                                !.res = PairRes(Simulator_min(sim_heap[sims[i].data]))]
    /\ UNCHANGED <<gsid_static, globalStructures, sim_heap, sims, sim_inserted,
                   sim_issued, sim_destroyed>>

SimMax(i) ==
    /\ SimFrame
    /\ sims[i].live
    /\ sim_last' = [NoOp EXCEPT !.op = "max", !.inst = i,
                                !.res = PairRes(Simulator_max(sim_heap[sims[i].data]))]
    /\ UNCHANGED <<gsid_static, globalStructures, sim_heap, sims, sim_inserted,
                   sim_issued, sim_destroyed>>

SimGetPower(i) ==
    /\ SimFrame
    /\ sims[i].live
    /\ sim_last' = [NoOp EXCEPT !.op = "get_power", !.inst = i,
                                !.res = [NoRes EXCEPT !.power =
                                           Simulator_get_power(sim_heap[sims[i].data])]]
    /\ UNCHANGED <<gsid_static, globalStructures, sim_heap, sims, sim_inserted,
                   sim_issued, sim_destroyed>>

\* Destruction of a Simulator: deleteStructure(), then the object is gone.
SimDestroy(i) ==
    /\ SimFrame
    /\ sims[i].live
    /\ LET dels == Simulator_deleteStructure(globalStructures, sims[i].gsid)
           ss   == [sims EXCEPT ![i] = NoSim]
       IN  /\ globalStructures' = dels.table
           /\ sims' = ss
           /\ sim_heap' = Restrict(sim_heap, Reachable(ss))
           /\ sim_inserted' = Restrict(sim_inserted, Reachable(ss))
           /\ sim_destroyed' = sim_destroyed \cup {sims[i].gsid}
           /\ sim_last' = [NoOp EXCEPT !.op = "destroy", !.inst = i,
                                       !.key = sims[i].gsid,
                                       !.was = Cardinality(DOMAIN sim_inserted[sims[i].data]),
                                       !.res = [NoRes EXCEPT !.status = dels.res.rslt,
                                                             !.power = dels.res.power]]
    /\ UNCHANGED <<gsid_static, sim_issued>>

(***************************************************************************)
(* The driver's command executor (cmdexec.c), the identifier registry it   *)
(* calls (gsidresolver) and the device behind the bus.                     *)
(***************************************************************************)
\* ---- bounds of the facade model ----
MaxDrvGsid == 2     \* identifiers the registry issues in a run
MaxBatch   == 2     \* longest insert_vector

\* Structure numbers of the device.
StrNums == {1, 2}

\* key_t and value_t: SPU_WEIGHT words each, word 0 first.
HwKeys   == {<<1, 0>>, <<0, 1>>}
HwValues == {<<10, 0>>, <<0, 20>>}
NoWords  == <<0, 0>>

\* What a read outside a burst's data array, or of memory kmalloc returned
\* and nobody wrote, can yield.
WildWords == {0, 7}

\* What the device's VAL/KEY registers hold when no command has set them.
StaleWords == {0, 5}

\* CASE_CMDFRMT_n and CASE_RSLTFRMT_n: the commands of each layout.
CmdFrmt1  == {"INS"}
CmdFrmt2  == {"DEL", "SRCH", "NEXT", "PREV", "NSM", "NGR"}
CmdFrmt3  == {"DELS", "MIN", "MAX"}
CmdFrmt4  == {"AND"}      \* a command over structures A and B into R
CmdFrmt5  == {"NOT"}      \* a command over structure A into R
RsltFrmt0 == {"ADDS"}
RsltFrmt1 == {"INS", "DEL", "DELS"} \cup CmdFrmt4 \cup CmdFrmt5
RsltFrmt2 == {"SRCH", "MIN", "MAX", "NEXT", "PREV", "NSM", "NGR"}

\* Register addresses.
KEY_REG(i) == <<"KEY", i>>
VAL_REG(i) == <<"VAL", i>>
CMD_REG    == <<"CMD", 0>>
POWER_REG  == <<"POWER", 0>>
Registers  == {KEY_REG(i) : i \in KeyIdx} \cup {VAL_REG(i) : i \in KeyIdx}
                \cup {CMD_REG, POWER_REG}

\* ---- identifier registry: create_gsid / resolve_gsid ----
FreeStr(w) == StrNums \ {w.gsids[g] : g \in DOMAIN w.gsids}

\* create_gsid: a new identifier bound to a free structure number, or failure.
create_gsid(w, alloc) ==
    IF alloc /\ FreeStr(w) # {}
    THEN LET g == w.next + 1
             n == CHOOSE x \in FreeStr(w) : \A y \in FreeStr(w) : x <= y
         IN  [err |-> 0, gsid |-> g,
              w |-> [w EXCEPT !.next = g,
                              !.gsids = [x \in DOMAIN @ \cup {g} |->
                                           IF x = g THEN n ELSE @[x]]]]
    ELSE [err |-> -1, gsid |-> 0, w |-> w]

\* resolve_gsid: the structure number of an identifier (0: not found).  A DELS
\* command unbinds the identifier.
resolve_gsid(w, gsid, cmd) ==
    IF gsid \in DOMAIN w.gsids
    THEN [str |-> w.gsids[gsid],
          w |-> IF cmd = "DELS"
                THEN [w EXCEPT !.gsids = [x \in DOMAIN @ \ {gsid} |-> @[x]]]
                ELSE w]
    ELSE [str |-> 0, w |-> w]

\* ---- the device: what a command written to CMD_REG does ----
WordsLess(a, b) ==
    \E i \in 1 .. SPU_WEIGHT :
        /\ a[i] < b[i]
        /\ \A j \in (i + 1) .. SPU_WEIGHT : a[j] = b[j]

RegKey(regs) == [i \in 1 .. SPU_WEIGHT |-> regs[KEY_REG(i - 1)]]
RegVal(regs) == [i \in 1 .. SPU_WEIGHT |-> regs[VAL_REG(i - 1)]]

SetPair(regs, k, v) ==
    [a \in Registers |->
        IF a[1] = "KEY" THEN k[a[2] + 1]
        ELSE IF a[1] = "VAL" THEN v[a[2] + 1]
        ELSE regs[a]]

\* The device executes the command in CMD_REG on the KEY/VAL registers:
\* the structures and the registers afterwards.
DeviceExec(dev, regs) ==
    LET c == regs[CMD_REG].cmd
        n == regs[CMD_REG].str
        m == dev[n]
        k == RegKey(regs)
        m2 == IF c = "INS" THEN [x \in DOMAIN m \cup {k} |-> IF x = k THEN RegVal(regs) ELSE m[x]]
              ELSE IF c = "DEL" THEN [x \in DOMAIN m \ {k} |-> m[x]]
              ELSE IF c = "DELS" THEN [x \in {} |-> NoWords]
              ELSE m
        hit == IF c = "SRCH" /\ k \in DOMAIN m THEN {k}
               ELSE IF c = "MIN" THEN {x \in DOMAIN m : \A y \in DOMAIN m : ~WordsLess(y, x)}
               ELSE IF c = "MAX" THEN {x \in DOMAIN m : \A y \in DOMAIN m : ~WordsLess(x, y)}
               ELSE IF c \in {"NEXT", "NGR"}
               THEN {x \in DOMAIN m : WordsLess(k, x)
                        /\ \A y \in DOMAIN m : WordsLess(k, y) => ~WordsLess(y, x)}
               ELSE IF c \in {"PREV", "NSM"}
               THEN {x \in DOMAIN m : WordsLess(x, k)
                        /\ \A y \in DOMAIN m : WordsLess(y, k) => ~WordsLess(x, y)}
               ELSE {}
        r1 == IF hit = {} THEN regs
              ELSE LET x == CHOOSE x \in hit : TRUE IN SetPair(regs, x, m[x])
        pw == IF c = "DELS" THEN Cardinality(DOMAIN m) ELSE Cardinality(DOMAIN m2)
    IN  [dev  |-> [dev EXCEPT ![n] = m2],
         regs |-> [r1 EXCEPT ![POWER_REG] = pw]]

\* ---- cmdexec.c ----
\* alloc_rslt: the result buffer; only rslt is set (ERR), the other fields
\* hold what kmalloc returned.
alloc_rslt(cmd, wild) ==
    [rslt |-> ERR, gsid |-> 0, key |-> <<wild, wild>>, val |-> <<wild, wild>>,
     power |-> wild]

\* adds: the ADDS executor.
\* Mutant: rslt is set to OK whatever create_gsid returned.
adds_AlwaysOk(res_buf, w, alloc) ==
    LET c == create_gsid(w, alloc)
    IN  [res |-> [res_buf EXCEPT !.gsid = c.gsid, !.rslt = OK], w |-> c.w]

adds(res_buf, w, alloc) ==
    LET c == create_gsid(w, alloc)
    IN  IF c.err # 0 THEN [res |-> res_buf, w |-> w]
        ELSE [res |-> [res_buf EXCEPT !.gsid = c.gsid, !.rslt = OK], w |-> c.w]

\* init_burst_w, the allocation and initialisation common to the layouts
\* with one command word: ENOMEM when a kmalloc returned NULL.
init_burst_w_word(alloc, w, cmdw) ==
    IF ~alloc THEN [err |-> "ENOMEM", burst |-> <<>>, w |-> w]
    ELSE [err |-> "none", w |-> w, burst |-> <<[addr |-> CMD_REG, data |-> cmdw]>>]

\* init_burst_w, CASE_CMDFRMT_4: A, B and R are resolved in turn; the test
\* after R looks at str_b again.  ra, rb, rr are the three resolutions.
init_burst_w_frmt4(cmd, w, alloc, ra, rb, rr) ==
    IF ra.str <= 0 THEN [err |-> "ENOKEY", burst |-> <<>>, w |-> ra.w]
    ELSE IF rb.str <= 0 THEN [err |-> "ENOKEY", burst |-> <<>>, w |-> rb.w]
    ELSE IF rb.str <= 0 THEN [err |-> "ENOKEY", burst |-> <<>>, w |-> rr.w]
    ELSE init_burst_w_word(alloc, rr.w,
             [cmd |-> cmd, str |-> ra.str, str_b |-> rb.str, str_r |-> rr.str])

\* init_burst_w, CASE_CMDFRMT_5: A and R are resolved; the test after R looks
\* at str_b, which this layout never assigns (junk is what the local holds).
init_burst_w_frmt5(cmd, w, alloc, junk, ra, rr) ==
    IF ra.str <= 0 THEN [err |-> "ENOKEY", burst |-> <<>>, w |-> ra.w]
    ELSE IF junk <= 0 THEN [err |-> "ENOKEY", burst |-> <<>>, w |-> rr.w]
    ELSE init_burst_w_word(alloc, rr.w,
             [cmd |-> cmd, str |-> ra.str, str_r |-> rr.str])

\* addr_shift[idx] = a; data[idx] = d (C index, from 0).
SetEntry(burst, idx, a, d) == [burst EXCEPT ![idx + 1] = [addr |-> a, data |-> d]]

\* The loop for(i = 0; i < SPU_WEIGHT; i++) of the initialisation: key word i
\* at index i and, in the layout with a value, value word i at i + SPU_WEIGHT.
RECURSIVE FillKeyVal(_, _, _, _)
FillKeyVal(burst, cmd_buf, with_val, i) ==
    IF i >= SPU_WEIGHT THEN burst
    ELSE LET b1 == SetEntry(burst, i, KEY_REG(i), cmd_buf.key[i + 1])
             b2 == IF with_val
                   THEN SetEntry(b1, i + SPU_WEIGHT, VAL_REG(i), cmd_buf.val[i + 1])
                   ELSE b1
         IN  FillKeyVal(b2, cmd_buf, with_val, i + 1)

\* The index of the command word.
\* Mutant: the command word goes to the head of the burst.
CmdIndex_First(count) == 0

CmdIndex(count) == count - 1

\* init_burst_w, CASE_CMDFRMT_1 .. 3: the write burst, as the sequence of
\* (address, data) of its count entries; err names the error when it could not
\* be built.
init_burst_w_frmt123(cmd, cmd_buf, w, alloc) ==
    LET r   == resolve_gsid(w, cmd_buf.gsid, cmd)
        str == r.str
        count == IF cmd \in CmdFrmt1 THEN SPU_WEIGHT * 2 + 1
                 ELSE IF cmd \in CmdFrmt2 THEN SPU_WEIGHT + 1
                 ELSE 1
        cmdw == [cmd |-> cmd, str |-> str]
        \* the arrays as kmalloc returned them
        raw  == [i \in 1 .. count |-> [addr |-> <<"NONE", 0>>, data |-> 0]]
        body == IF cmd \in CmdFrmt1 THEN FillKeyVal(raw, cmd_buf, TRUE, 0)
                ELSE IF cmd \in CmdFrmt2 THEN FillKeyVal(raw, cmd_buf, FALSE, 0)
                ELSE raw
    IN  IF cmd \notin CmdFrmt1 \cup CmdFrmt2 \cup CmdFrmt3
        THEN [err |-> "ENOEXEC", burst |-> <<>>, w |-> w]
        ELSE IF str <= 0 THEN [err |-> "ENOKEY", burst |-> <<>>, w |-> w]
        ELSE IF ~alloc THEN [err |-> "ENOMEM", burst |-> <<>>, w |-> r.w]
        ELSE [err |-> "none", w |-> r.w,
              burst |-> SetEntry(body, CmdIndex(count), CMD_REG, cmdw)]

\* init_burst_w.  alloc: both kmallocs succeed; junk: what an unassigned local
\* holds.
init_burst_w(cmd, cmd_buf, w, alloc, junk) ==
    IF cmd \in CmdFrmt4
    THEN LET ra == resolve_gsid(w, cmd_buf.gsid_a, cmd)
             rb == resolve_gsid(ra.w, cmd_buf.gsid_b, cmd)
             rr == resolve_gsid(rb.w, cmd_buf.gsid_r, cmd)
         IN  init_burst_w_frmt4(cmd, w, alloc, ra, rb, rr)
    ELSE IF cmd \in CmdFrmt5
    THEN LET ra == resolve_gsid(w, cmd_buf.gsid_a, cmd)
             rr == resolve_gsid(ra.w, cmd_buf.gsid_r, cmd)
         IN  init_burst_w_frmt5(cmd, w, alloc, junk, ra, rr)
    ELSE init_burst_w_frmt123(cmd, cmd_buf, w, alloc)

\* init_burst_r: the addresses of the read burst.
init_burst_r(cmd, alloc) ==
    IF cmd \notin RsltFrmt1 \cup RsltFrmt2 THEN [err |-> "ENOEXEC", addrs |-> <<>>]
    ELSE IF ~alloc THEN [err |-> "ENOMEM", addrs |-> <<>>]
    ELSE [err |-> "none",
          addrs |-> IF cmd \in RsltFrmt1 THEN <<POWER_REG>>
                    ELSE [i \in 1 .. SPU_WEIGHT |-> KEY_REG(i - 1)]
                         \o [i \in 1 .. SPU_WEIGHT |-> VAL_REG(i - 1)]
                         \o <<POWER_REG>>]

\* pci_burst_write: the registers after the burst's writes, in burst order.
RECURSIVE pci_burst_write(_, _)
pci_burst_write(regs, burst) ==
    IF burst = <<>> THEN regs
    ELSE pci_burst_write([regs EXCEPT ![Head(burst).addr] = Head(burst).data], Tail(burst))

\* pci_burst_read: data[i] is the register at addr_shift[i].
pci_burst_read(regs, addrs) == [i \in 1 .. Len(addrs) |-> regs[addrs[i]]]

\* data[idx] of a burst of Len(data) words (C index, from 0); an index outside
\* the array reads whatever lies there.
BurstData(data, idx, wild) ==
    IF idx >= 0 /\ idx < Len(data) THEN data[idx + 1] ELSE wild

\* set_rsltfrmt: decode the read-back words into the result buffer.  The
\* function's local `count` is 0 throughout.
set_rsltfrmt(data, cmd, res_buf, wild) ==
    LET count == 0
    IN  IF cmd \in RsltFrmt1
        THEN [res_buf EXCEPT !.rslt = OK, !.power = BurstData(data, count - 1, wild)]
        ELSE IF cmd \in RsltFrmt2
        THEN [res_buf EXCEPT
                !.rslt = OK,
                !.key = [i \in 1 .. SPU_WEIGHT |-> data[i]],
                !.val = [i \in 1 .. SPU_WEIGHT |-> data[i + SPU_WEIGHT]],
                !.power = BurstData(data, count - 1, wild)]
        ELSE res_buf

\* How the kernel allocations of one call go: all succeed, kmalloc fails in
\* init_burst_w (or in create_gsid), kmalloc fails in init_burst_r.
AllocOutcomes == {"ok", "no_w", "no_r"}

\* The environment of one call: the allocations, what uninitialised or
\* out-of-array memory holds, what the device registers held.
CallEnvs == [alloc : AllocOutcomes, wild : WildWords, stale : StaleWords]

\* The same with the device's registers cleared beforehand: for the commands
\* that read back POWER_REG alone, which the device always sets, what the other
\* registers held is never seen.
PowerEnvs == [alloc : AllocOutcomes, wild : WildWords, stale : {0}]

\* execute_cmd, the bus part: burst write (the device runs the command), poll
\* until ready, burst read, decode.  d is the device after the write burst.
execute_cmd_bus(pure_cmd, res0, bw, br, d, env) ==
    [res |-> set_rsltfrmt(pci_burst_read(d.regs, br.addrs), pure_cmd, res0, env.wild),
     bus |-> TRUE,
     w   |-> [bw.w EXCEPT !.dev = d.dev]]

\* execute_cmd after both bursts were initialised: an error return when one
\* of them failed, the bus transaction otherwise.
execute_cmd_bursts(pure_cmd, res0, bw, br, env) ==
    IF bw.err # "none" THEN [res |-> res0, bus |-> FALSE, w |-> bw.w]
    ELSE IF br.err # "none" THEN [res |-> res0, bus |-> FALSE, w |-> bw.w]
    ELSE execute_cmd_bus(pure_cmd, res0, bw, br,
             DeviceExec(bw.w.dev,
                        pci_burst_write([a \in Registers |-> env.stale], bw.burst)),
             env)

\* execute_cmd, the ADDS special case: no bus transaction.
execute_cmd_adds(a) == [res |-> a.res, bus |-> FALSE, w |-> a.w]

\* execute_cmd, from entry to return with the device answering the poll:
\* the result buffer, whether the bus was used, and the world afterwards.
execute_cmd(cmd_buf, w, env) ==
    IF cmd_buf.cmd = "ADDS"
    THEN execute_cmd_adds(adds(alloc_rslt(cmd_buf.cmd, env.wild), w, env.alloc # "no_w"))
    ELSE execute_cmd_bursts(cmd_buf.cmd, alloc_rslt(cmd_buf.cmd, env.wild),
                            init_burst_w(cmd_buf.cmd, cmd_buf, w, env.alloc # "no_w", env.wild),
                            init_burst_r(cmd_buf.cmd, env.alloc # "no_r"),
                            env)

(***************************************************************************)
(* execute_cmd, statement by statement: one call, from entry to return,    *)
(* with the kmalloc'ed buffers, the bus events and the device's ready bit. *)
(***************************************************************************)
MaxPolls == 2       \* status reads that found the device busy, as far as recorded

\* The buffers execute_cmd and its helpers kmalloc; "reg" is the allocation
\* create_gsid makes in the registry.
Buffers      == {"res", "w_addr", "w_data", "r_addr", "r_data"}
BurstBuffers == {"w_addr", "w_data", "r_addr", "r_data"}
KmallocFails == {{}} \cup {{a} : a \in Buffers \cup {"reg"}}

\* The commands handed in ("NOP": a code no layout lists) and the identifiers
\* they carry: identifier 1 is bound in the registry, identifier 2 is not.
XCmds  == {"ADDS", "INS", "SRCH", "MIN", "DELS", "AND", "NOT", "NOP"}
XGsids == {1, 2}
XBound == {1}
XCmdBufs ==
    {[cmd |-> c, gsid |-> a, gsid_a |-> a, gsid_b |-> b, gsid_r |-> r,
      key |-> k, val |-> <<0, 20>>] :
        c \in XCmds, a \in XGsids, b \in XGsids, r \in XGsids, k \in HwKeys}
XEnvs == [fail : KmallocFails, wild : WildWords, stale : StaleWords]

\* The identifiers of a command's layout.
Carried(cmd_buf) ==
    IF cmd_buf.cmd \in CmdFrmt4 THEN {cmd_buf.gsid_a, cmd_buf.gsid_b, cmd_buf.gsid_r}
    ELSE IF cmd_buf.cmd \in CmdFrmt5 THEN {cmd_buf.gsid_a, cmd_buf.gsid_r}
    ELSE IF cmd_buf.cmd \in CmdFrmt1 \cup CmdFrmt2 \cup CmdFrmt3 THEN {cmd_buf.gsid}
    ELSE {}

\* The loop condition of the poll: the ready bit of STATE_REG_0 is clear.
\* Mutant: the loop is left whatever the status register shows.
PollAgain_Never(status) == FALSE

\* Mutant: the loop is never left.
PollAgain_Always(status) == TRUE

PollAgain(status) == ~status

\* The test execute_cmd makes of init_burst_w's and init_burst_r's return value.
\* Mutant: the return value is not looked at.
BurstFailed_Ignored(err) == FALSE

BurstFailed(err) == err # "none"

\* History of the bus: the reads of the status register are recorded up to
\* MaxPolls of each outcome.
Polls(bus, ev) == Cardinality({i \in 1 .. Len(bus) : bus[i] = ev})
BusyPolls(bus) == Polls(bus, "status_busy")
Polled(bus, ev) == IF Polls(bus, ev) < MaxPolls THEN Append(bus, ev) ELSE bus

\* No result buffer.
XNoBuf == [rslt |-> ERR, gsid |-> 0, key |-> NoWords, val |-> NoWords, power |-> 0]

XFrame == backend = "drv" /\ UNCHANGED <<kvars, svars, hvars, bvars, backend>>

XIdle ==
    /\ x_pc = "idle"
    /\ x_cmd = [cmd |-> "NOP"]
    /\ x_env = [fail |-> {}, wild |-> 0, stale |-> 0]
    /\ x_world = [gsids |-> EmptyMap, next |-> 0]
    /\ x_res = [null |-> TRUE, buf |-> XNoBuf]
    /\ x_w = [err |-> "none", burst |-> <<>>]
    /\ x_r = [err |-> "none", addrs |-> <<>>, data |-> <<>>]
    /\ x_ret = "none"
    /\ x_heap = {}
    /\ x_ever = {}
    /\ x_bus = <<>>
    /\ x_spu = [dev |-> [n \in StrNums |-> EmptyMap], regs |-> [a \in Registers |-> 0],
                ready |-> TRUE]

\* execute_cmd entered: identifier 1 is bound to structure 1, which holds one pair; the
\* device is idle.
XCalled ==
    /\ x_pc = "entry"
    /\ x_cmd \in XCmdBufs
    /\ x_env \in XEnvs
    /\ x_world = [gsids |-> [g \in XBound |-> 1], next |-> 1]
    /\ x_res = [null |-> TRUE, buf |-> XNoBuf]
    /\ x_w = [err |-> "none", burst |-> <<>>]
    /\ x_r = [err |-> "none", addrs |-> <<>>, data |-> <<>>]
    /\ x_ret = "none"
    /\ x_heap = {}
    /\ x_ever = {}
    /\ x_bus = <<>>
    /\ x_spu = [dev |-> [n \in StrNums |->
                          IF n = 1 THEN [k \in {<<1, 0>>} |-> <<10, 0>>] ELSE EmptyMap],
                regs |-> [a \in Registers |-> x_env.stale],
                ready |-> TRUE]

\* rslt_size = alloc_rslt(res_buf, pure_cmd); then the ADDS test.  A command
\* no result layout lists leaves *res_buf as it was.
XAllocRslt ==
    /\ XFrame
    /\ x_pc = "entry"
    /\ LET known == x_cmd.cmd \in RsltFrmt0 \cup RsltFrmt1 \cup RsltFrmt2
           got   == known /\ "res" \notin x_env.fail
       IN  /\ x_res' = IF got THEN [null |-> FALSE, buf |-> alloc_rslt(x_cmd.cmd, x_env.wild)]
                       ELSE [null |-> TRUE, buf |-> XNoBuf]
           /\ x_heap' = IF got THEN x_heap \cup {"res"} ELSE x_heap
           /\ x_ever' = IF got THEN x_ever \cup {"res"} ELSE x_ever
    /\ x_pc' = IF x_cmd.cmd = "ADDS" THEN "adds" ELSE "init_w"
    /\ UNCHANGED <<x_cmd, x_env, x_world, x_w, x_r, x_ret, x_bus, x_spu>>

\* adds(*res_buf); return rslt_size.  adds writes through res_buf: a NULL
\* res_buf ends the call in an oops.
XAdds ==
    /\ XFrame
    /\ x_pc = "adds"
    /\ IF x_res.null
       THEN /\ x_pc' = "oops"
            /\ UNCHANGED <<x_res, x_world, x_ret>>
       ELSE \E r \in {adds(x_res.buf, x_world, "reg" \notin x_env.fail)} :
            /\ x_res' = [x_res EXCEPT !.buf = r.res]
            /\ x_world' = r.w
            /\ x_ret' = "rslt_size"
            /\ x_pc' = "returned"
    /\ UNCHANGED <<x_cmd, x_env, x_w, x_r, x_heap, x_ever, x_bus, x_spu>>

\* if(init_burst_w(&pci_burst_w, pure_cmd, cmd_buf) != 0) return -ENOMEM;
\* the kmallocs are reached unless resolution or the layout switch failed.
XInitBurstW ==
    /\ XFrame
    /\ x_pc = "init_w"
    /\ \E bw \in {init_burst_w(x_cmd.cmd, x_cmd, x_world,
                               {"w_addr", "w_data"} \cap x_env.fail = {}, x_env.wild)} :
       LET got == IF bw.err \in {"ENOKEY", "ENOEXEC"} THEN {}
                  ELSE {"w_addr", "w_data"} \ x_env.fail
       IN  /\ x_w' = [err |-> bw.err, burst |-> bw.burst]
           /\ x_world' = bw.w
           /\ x_heap' = x_heap \cup got
           /\ x_ever' = x_ever \cup got
           /\ x_pc' = IF BurstFailed(bw.err) THEN "returned" ELSE "init_r"
           /\ x_ret' = IF BurstFailed(bw.err) THEN "-ENOMEM" ELSE x_ret
    /\ UNCHANGED <<x_cmd, x_env, x_res, x_r, x_bus, x_spu>>

\* if(init_burst_r(&pci_burst_r, pure_cmd) != 0) return -ENOMEM;
XInitBurstR ==
    /\ XFrame
    /\ x_pc = "init_r"
    /\ \E br \in {init_burst_r(x_cmd.cmd, {"r_addr", "r_data"} \cap x_env.fail = {})} :
       LET got == IF br.err = "ENOEXEC" THEN {} ELSE {"r_addr", "r_data"} \ x_env.fail
       IN  /\ x_r' = [err |-> br.err, addrs |-> br.addrs, data |-> <<>>]
           /\ x_heap' = x_heap \cup got
           /\ x_ever' = x_ever \cup got
           /\ x_pc' = IF BurstFailed(br.err) THEN "returned" ELSE "write"
           /\ x_ret' = IF BurstFailed(br.err) THEN "-ENOMEM" ELSE x_ret
    /\ UNCHANGED <<x_cmd, x_env, x_world, x_res, x_w, x_bus, x_spu>>

\* pci_burst_write(&pci_burst_w): the device starts on the command.
XBurstWrite ==
    /\ XFrame
    /\ x_pc = "write"
    /\ x_spu' = [x_spu EXCEPT !.regs = pci_burst_write(@, x_w.burst), !.ready = FALSE]
    /\ x_bus' = Append(x_bus, "write")
    /\ x_pc' = "poll"
    /\ UNCHANGED <<x_cmd, x_env, x_world, x_res, x_w, x_r, x_ret, x_heap, x_ever>>

\* One turn of do { ... } while((pci_single_read(STATE_REG_0) & ready) == 0).
XPoll ==
    /\ XFrame
    /\ x_pc = "poll"
    /\ LET status == x_spu.ready
       IN  /\ x_bus' = Polled(x_bus, IF status THEN "status_ready" ELSE "status_busy")
           /\ x_pc' = IF PollAgain(status) THEN "poll" ELSE "read"
    /\ UNCHANGED <<x_cmd, x_env, x_world, x_res, x_w, x_r, x_ret, x_heap, x_ever, x_spu>>

\* The device completes the command and raises its ready bit.
SpuCompletes ==
    /\ XFrame
    /\ x_pc \in {"poll", "read"}
    /\ ~x_spu.ready
    /\ \E d \in {DeviceExec(x_spu.dev, x_spu.regs)} :
          x_spu' = [dev |-> d.dev, regs |-> d.regs, ready |-> TRUE]
    /\ UNCHANGED <<x_pc, x_cmd, x_env, x_world, x_res, x_w, x_r, x_ret, x_heap, x_ever, x_bus>>

\* pci_burst_read(&pci_burst_r); set_rsltfrmt(&pci_burst_r, pure_cmd, *res_buf);
\* set_rsltfrmt writes through res_buf: a NULL res_buf ends the call in an oops.
XBurstRead ==
    /\ XFrame
    /\ x_pc = "read"
    /\ \E data \in {pci_burst_read(x_spu.regs, x_r.addrs)} :
       /\ x_r' = [x_r EXCEPT !.data = data]
       /\ x_bus' = Append(x_bus, "read")
       /\ IF x_res.null
          THEN x_pc' = "oops" /\ UNCHANGED x_res
          ELSE /\ x_res' = [x_res EXCEPT !.buf = set_rsltfrmt(data, x_cmd.cmd, @, x_env.wild)]
               /\ x_pc' = "free"
    /\ UNCHANGED <<x_cmd, x_env, x_world, x_w, x_ret, x_heap, x_ever, x_spu>>

\* The four kfree's; return rslt_size.
XFree ==
    /\ XFrame
    /\ x_pc = "free"
    /\ x_heap' = x_heap \ BurstBuffers
    /\ x_ret' = "rslt_size"
    /\ x_pc' = "returned"
    /\ UNCHANGED <<x_cmd, x_env, x_world, x_res, x_w, x_r, x_ever, x_bus, x_spu>>

(***************************************************************************)
(* Two execute_cmd calls on one bus (cmdexec.c l.41-113).  execute_cmd     *)
(* takes no lock; with b_serial the callers hold one lock of their own     *)
(* from before the call until it returns.                                  *)
(***************************************************************************)
Procs == {1, 2}

\* The commands the two calls are made with, all on the registered identifier.
BCmdBufs ==
    {[cmd |-> c, gsid |-> 1, gsid_a |-> 1, gsid_b |-> 1, gsid_r |-> 1,
      key |-> k, val |-> <<0, 20>>] : c \in {"INS", "SRCH", "MIN"}, k \in HwKeys}

\* The identifier registry during the calls: identifier 1 on structure 1.
BWorld == [gsids |-> [g \in XBound |-> 1], next |-> 1]

\* The callers' lock: a call may enter when the callers do not serialise, or
\* when the lock is free.
MayEnter(serial, lock) == ~serial \/ lock = 0

BFrame == backend = "bus" /\ UNCHANGED <<kvars, svars, hvars, xvars, backend>>

BIdle ==
    /\ b_serial = FALSE
    /\ b_lock = 0
    /\ b_pc = [p \in Procs |-> "idle"]
    /\ b_cmd = [p \in Procs |-> [cmd |-> "NOP"]]
    /\ b_spu = [dev |-> [n \in StrNums |-> EmptyMap], regs |-> [a \in Registers |-> 0],
                ready |-> TRUE, pending |-> 0, by |-> 0]
    /\ b_bus = <<>>
    /\ b_res = [p \in Procs |-> [buf |-> XNoBuf, foreign |-> FALSE]]

\* Two callers about to call execute_cmd; structure 1 holds one pair.
BCalled ==
    /\ b_serial \in BOOLEAN
    /\ b_lock = 0
    /\ b_pc = [p \in Procs |-> "idle"]
    /\ b_cmd \in [Procs -> BCmdBufs]
    /\ b_spu = [dev |-> [n \in StrNums |->
                          IF n = 1 THEN [k \in {<<1, 0>>} |-> <<10, 0>>] ELSE EmptyMap],
                regs |-> [a \in Registers |-> 0],
                ready |-> TRUE, pending |-> 0, by |-> 0]
    /\ b_bus = <<>>
    /\ b_res = [p \in Procs |-> [buf |-> XNoBuf, foreign |-> FALSE]]

\* The call is made (by a serialising caller: with the lock taken); alloc_rslt,
\* init_burst_w and init_burst_r, none of which touches the bus.
BEnter(p) ==
    /\ BFrame
    /\ b_pc[p] = "idle"
    /\ MayEnter(b_serial, b_lock)
    /\ b_lock' = IF b_serial THEN p ELSE b_lock
    /\ b_res' = [b_res EXCEPT ![p].buf = alloc_rslt(b_cmd[p].cmd, 0)]
    /\ b_pc' = [b_pc EXCEPT ![p] = "write"]
    /\ UNCHANGED <<b_serial, b_cmd, b_spu, b_bus>>

\* pci_burst_write(&pci_burst_w): the device starts on the command written.
BWrite(p) ==
    /\ BFrame
    /\ b_pc[p] = "write"
    /\ \E bw \in {init_burst_w(b_cmd[p].cmd, b_cmd[p], BWorld, TRUE, 0)} :
          b_spu' = [b_spu EXCEPT !.regs = pci_burst_write(@, bw.burst),
                                 !.ready = FALSE, !.pending = p]
    /\ b_bus' = Append(b_bus, <<p, "write">>)
    /\ b_pc' = [b_pc EXCEPT ![p] = "poll"]
    /\ UNCHANGED <<b_serial, b_lock, b_cmd, b_res>>

\* One turn of the poll loop.
BPoll(p) ==
    /\ BFrame
    /\ b_pc[p] = "poll"
    /\ b_pc' = [b_pc EXCEPT ![p] = IF PollAgain(b_spu.ready) THEN "poll" ELSE "read"]
    /\ UNCHANGED <<b_serial, b_lock, b_cmd, b_spu, b_bus, b_res>>

\* The device completes the command last written and raises its ready bit.
BDevice ==
    /\ BFrame
    /\ ~b_spu.ready
    /\ \E d \in {DeviceExec(b_spu.dev, b_spu.regs)} :
          b_spu' = [b_spu EXCEPT !.dev = d.dev, !.regs = d.regs, !.ready = TRUE,
                                 !.by = b_spu.pending]
    /\ UNCHANGED <<b_serial, b_lock, b_pc, b_cmd, b_bus, b_res>>

\* pci_burst_read, set_rsltfrmt, the kfree's and the return (after which a
\* serialising caller drops the lock).
BRead(p) ==
    /\ BFrame
    /\ b_pc[p] = "read"
    /\ \E br \in {init_burst_r(b_cmd[p].cmd, TRUE)} :
          b_res' = [b_res EXCEPT ![p] =
                      [buf |-> set_rsltfrmt(pci_burst_read(b_spu.regs, br.addrs),
                                            b_cmd[p].cmd, @.buf, 0),
                       foreign |-> b_spu.by # p]]
    /\ b_bus' = Append(b_bus, <<p, "read">>)
    /\ b_pc' = [b_pc EXCEPT ![p] = "done"]
    /\ b_lock' = IF b_serial THEN 0 ELSE b_lock
    /\ UNCHANGED <<b_serial, b_cmd, b_spu>>

(***************************************************************************)
(* BaseStructure (base_structure.hpp): the facade over the driver.         *)
(***************************************************************************)
\* The BaseStructure objects the program holds at a time.
StructIds == {1}

NoStruct == [live |-> FALSE, gsid |-> 0, power |-> 0]
NoRslt   == [rslt |-> OK, gsid |-> 0, key |-> NoWords, val |-> NoWords, power |-> 0]
NoHwOp   == [op |-> "none", inst |-> 0, key |-> NoWords, value |-> NoWords,
             vec |-> <<>>, present |-> FALSE, bus |-> FALSE, ret |-> OK, res |-> NoRslt,
             cached |-> 0]

CmdBuf(c, g, k, v) == [cmd |-> c, gsid |-> g, key |-> k, val |-> v]

\* Fileops::execute: hands the command to execute_cmd and returns the result
\* structure.  trace (history) lists the commands of the current operation.
Fileops_result(cmd_buf, w, r) ==
    [res |-> r.res, bus |-> r.bus,
     w |-> [gsids |-> r.w.gsids, next |-> r.w.next, dev |-> r.w.dev,
            trace |-> Append(w.trace, [cmd |-> cmd_buf.cmd, key |-> cmd_buf.key,
                                       val |-> cmd_buf.val, rslt |-> r.res.rslt])]]

Fileops_execute(cmd_buf, w, env) ==
    Fileops_result(cmd_buf, w,
        execute_cmd(cmd_buf, [gsids |-> w.gsids, next |-> w.next, dev |-> w.dev], env))

\* Mutant: power is refreshed only from a result whose status is OK.
KeyResult_PowerOnOk(obj, result) ==
    [obj |-> IF result.res.rslt = OK THEN [obj EXCEPT !.power = result.res.power] ELSE obj,
     ret |-> result.res.rslt, res |-> result.res, bus |-> result.bus, w |-> result.w]

\* What every command but ADDS ends with: power = result.power, and the result.
KeyResult(obj, result) ==
    [obj |-> [obj EXCEPT !.power = result.res.power], ret |-> result.res.rslt,
     res |-> result.res, bus |-> result.bus, w |-> result.w]

\* BaseStructure::BaseStructure: power(0), ADDS; the identifier on OK,
\* CouldNotCreateStructure (no object) otherwise.
\* Mutant: the constructor takes power from the ADDS result instead of power(0).
BaseStructure_ctor_result_PowerFromResult(result) ==
    [obj |-> IF result.res.rslt = OK
             THEN [live |-> TRUE, gsid |-> result.res.gsid, power |-> result.res.power]
             ELSE NoStruct,
     thrown |-> result.res.rslt # OK, res |-> result.res, bus |-> result.bus,
     w |-> result.w]

BaseStructure_ctor_result(result) ==
    [obj |-> IF result.res.rslt = OK
             THEN [live |-> TRUE, gsid |-> result.res.gsid, power |-> 0]
             ELSE NoStruct,
     thrown |-> result.res.rslt # OK, res |-> result.res, bus |-> result.bus,
     w |-> result.w]

BaseStructure_ctor(w, env) ==
    BaseStructure_ctor_result(Fileops_execute(CmdBuf("ADDS", 0, NoWords, NoWords), w, env))

\* BaseStructure::~BaseStructure: DELS, power = result.power.
BaseStructure_dtor(obj, w, env) ==
    KeyResult(obj, Fileops_execute(CmdBuf("DELS", obj.gsid, NoWords, NoWords), w, env))

\* BaseStructure::get_power
BaseStructure_get_power(obj) == obj.power

\* The key commands: execute, power = result.power, return the result.
KeyCommand(c, obj, w, k, v, env) ==
    KeyResult(obj, Fileops_execute(CmdBuf(c, obj.gsid, k, v), w, env))

\* BaseStructure::insert(key, value, flags)
BaseStructure_insert(obj, w, k, v, env) == KeyCommand("INS", obj, w, k, v, env)

\* BaseStructure::insert(insert_vector, flags); r is what the single insert
\* of the current entry returned.
RECURSIVE BaseStructure_insert_vector(_, _, _, _)

\* Mutant: the loop goes on after a failed entry.
insert_vector_step_NoStop(r, vec, envs) ==
    IF Tail(vec) = <<>> THEN [obj |-> r.obj, ret |-> r.ret, w |-> r.w]
    ELSE BaseStructure_insert_vector(r.obj, r.w, Tail(vec), Tail(envs))

insert_vector_step(r, vec, envs) ==
    IF r.ret # OK THEN [obj |-> r.obj, ret |-> r.ret, w |-> r.w]
    ELSE BaseStructure_insert_vector(r.obj, r.w, Tail(vec), Tail(envs))

BaseStructure_insert_vector(obj, w, vec, envs) ==
    IF vec = <<>> THEN [obj |-> obj, ret |-> OK, w |-> w]
    ELSE insert_vector_step(
             BaseStructure_insert(obj, w, Head(vec).key, Head(vec).value, Head(envs)),
             vec, envs)

\* BaseStructure::del
BaseStructure_del(obj, w, k, env) == KeyCommand("DEL", obj, w, k, NoWords, env)

\* BaseStructure::search
BaseStructure_search(obj, w, k, env) == KeyCommand("SRCH", obj, w, k, NoWords, env)

\* BaseStructure::min
BaseStructure_min(obj, w, env) == KeyCommand("MIN", obj, w, NoWords, NoWords, env)

\* BaseStructure::max
BaseStructure_max(obj, w, env) == KeyCommand("MAX", obj, w, NoWords, NoWords, env)

\* BaseStructure::next
BaseStructure_next(obj, w, k, env) == KeyCommand("NEXT", obj, w, k, NoWords, env)

\* BaseStructure::prev
BaseStructure_prev(obj, w, k, env) == KeyCommand("PREV", obj, w, k, NoWords, env)

\* BaseStructure::nsm
BaseStructure_nsm(obj, w, k, env) == KeyCommand("NSM", obj, w, k, NoWords, env)

\* BaseStructure::ngr
BaseStructure_ngr(obj, w, k, env) == KeyCommand("NGR", obj, w, k, NoWords, env)

\* The InsertStruct entries batched inserts are built from (single inserts
\* put either value under either key beforehand).
InsertStruct == {[key |-> <<1, 0>>, value |-> <<10, 0>>],
                 [key |-> <<0, 1>>, value |-> <<0, 20>>]}

\* The environments of the calls of one batched insert of n entries: the
\* allocations succeed up to a first failure at call f (none when f = 0) and
\* again after it, over the same memory.
BatchEnvs(n) ==
    {[j \in 1 .. n |-> [alloc |-> IF j = f THEN a ELSE "ok", wild |-> x, stale |-> 0]] :
        f \in 0 .. n, a \in AllocOutcomes \ {"ok"}, x \in WildWords}

\* Every facade step: the program runs over the driver; nothing else moves.
HwFrame == backend = "hw" /\ UNCHANGED <<kvars, svars, xvars, bvars, backend>>

HwIdle ==
    /\ world = [gsids |-> EmptyMap, next |-> 0,
                dev |-> [n \in StrNums |-> [k \in {} |-> NoWords]], trace |-> <<>>]
    /\ structs = [i \in StructIds |-> NoStruct]
    /\ hw_last = NoHwOp

\* world at the start of a facade operation.
Fresh == [world EXCEPT !.trace = <<>>]

\* The device structure behind a live object.
StrOf(w, obj) == w.dev[w.gsids[obj.gsid]]

HwCreate(i, env) ==
    /\ HwFrame
    /\ ~structs[i].live
    /\ world.next < MaxDrvGsid
    /\ \E r \in {BaseStructure_ctor(Fresh, env)} :
       /\ structs' = [structs EXCEPT ![i] = r.obj]
       /\ world' = r.w
       /\ hw_last' = [NoHwOp EXCEPT !.op = "create", !.inst = i, !.bus = r.bus,
                                    !.ret = IF r.thrown THEN ERR ELSE OK, !.res = r.res]

HwDestroy(i, env) ==
    /\ HwFrame
    /\ structs[i].live
    /\ \E r \in {BaseStructure_dtor(structs[i], Fresh, env)} :
       /\ structs' = [structs EXCEPT ![i] = NoStruct]
       /\ world' = r.w
       /\ hw_last' = [NoHwOp EXCEPT !.op = "destroy", !.inst = i, !.bus = r.bus,
                                    !.res = r.res,
                                    !.cached = BaseStructure_get_power(r.obj)]

HwGetPower(i) ==
    /\ HwFrame
    /\ structs[i].live
    /\ world' = Fresh
    /\ hw_last' = [NoHwOp EXCEPT !.op = "get_power", !.inst = i,
                                 !.res = [NoRslt EXCEPT !.power =
                                            BaseStructure_get_power(structs[i])]]
    /\ UNCHANGED structs

\* What an operation that ran one key command leaves behind.
HwDone(name, i, k, v, r) ==
    /\ structs' = [structs EXCEPT ![i] = r.obj]
    /\ world' = r.w
    /\ hw_last' = [NoHwOp EXCEPT !.op = name, !.inst = i, !.key = k, !.value = v,
                                 !.present = k \in DOMAIN StrOf(world, structs[i]),
                                 !.bus = r.bus, !.ret = r.ret, !.res = r.res]

HwInsert(i, k, v, env) ==
    /\ HwFrame
    /\ structs[i].live
    /\ \E r \in {BaseStructure_insert(structs[i], Fresh, k, v, env)} :
          HwDone("insert", i, k, v, r)

HwInsertVector(i, vec, envs) ==
    /\ HwFrame
    /\ structs[i].live
    /\ \E r \in {BaseStructure_insert_vector(structs[i], Fresh, vec, envs)} :
       /\ structs' = [structs EXCEPT ![i] = r.obj]
       /\ world' = r.w
       /\ hw_last' = [NoHwOp EXCEPT !.op = "insert_vector", !.inst = i, !.vec = vec,
                                    !.ret = r.ret]

HwDel(i, k, env) ==
    /\ HwFrame
    /\ structs[i].live
    /\ \E r \in {BaseStructure_del(structs[i], Fresh, k, env)} :
          HwDone("del", i, k, NoWords, r)

HwSearch(i, k, env) ==
    /\ HwFrame
    /\ structs[i].live
    /\ \E r \in {BaseStructure_search(structs[i], Fresh, k, env)} :
          HwDone("search", i, k, NoWords, r)

HwMin(i, env) ==
    /\ HwFrame
    /\ structs[i].live
    /\ \E r \in {BaseStructure_min(structs[i], Fresh, env)} :
          HwDone("min", i, NoWords, NoWords, r)

HwMax(i, env) ==
    /\ HwFrame
    /\ structs[i].live
    /\ \E r \in {BaseStructure_max(structs[i], Fresh, env)} :
          HwDone("max", i, NoWords, NoWords, r)

HwNext(i, k, env) ==
    /\ HwFrame
    /\ structs[i].live
    /\ \E r \in {BaseStructure_next(structs[i], Fresh, k, env)} :
          HwDone("next", i, k, NoWords, r)

HwPrev(i, k, env) ==
    /\ HwFrame
    /\ structs[i].live
    /\ \E r \in {BaseStructure_prev(structs[i], Fresh, k, env)} :
          HwDone("prev", i, k, NoWords, r)

HwNsm(i, k, env) ==
    /\ HwFrame
    /\ structs[i].live
    /\ \E r \in {BaseStructure_nsm(structs[i], Fresh, k, env)} :
          HwDone("nsm", i, k, NoWords, r)

HwNgr(i, k, env) ==
    /\ HwFrame
    /\ structs[i].live
    /\ \E r \in {BaseStructure_ngr(structs[i], Fresh, k, env)} :
          HwDone("ngr", i, k, NoWords, r)

(***************************************************************************)
(* Specifications.                                                         *)
(***************************************************************************)
KeyIdle ==
    /\ fields_len_vec = <<>>
    /\ fields_data_vector = <<>>
    /\ key = ZeroKey
    /\ key_before = ZeroKey
    /\ kret = "none"
    /\ kpc = "idle"

\* ---- SpecKey: one call of compileKey on enumerated inputs ----
InitKey ==
    /\ fields_len_vec \in SeqsUpTo(FieldLengthStruct, MaxFields)
    /\ fields_data_vector \in SeqsUpTo(FieldDataStruct, MaxVals)
    /\ key \in KeyArrays
    /\ key_before = key
    /\ kret = "none"
    /\ kpc = "call"
    /\ SimIdle /\ HwIdle /\ XIdle /\ BIdle /\ backend = "none"

\* bool compileKey(u32 key[SPU_WEIGHT], FieldsDataVector fields_data_vector)
CompileKey ==
    /\ kpc = "call"
    /\ key' \in compileKey(key, fields_len_vec, fields_data_vector)
    /\ kret' = TRUE
    /\ kpc' = "done"
    /\ UNCHANGED <<fields_len_vec, fields_data_vector, key_before>>
    /\ UNCHANGED <<svars, hvars, xvars, bvars, backend>>

NextKey == CompileKey

SpecKey == InitKey /\ [][NextKey]_vars

\* ---- the simulation backend: Simulator objects created, copied, used, destroyed ----
NextSim ==
    \/ \E i \in SimIds : SimCreate(i)
    \/ \E i, j \in SimIds : SimCopy(i, j)
    \/ \E i \in SimIds, k \in SimKeys, v \in SimValues : SimInsert(i, k, v)
    \/ \E i \in SimIds, k \in SimKeys : SimDel(i, k)
    \/ \E i \in SimIds, k \in SimKeys : SimSearch(i, k)
    \/ \E i \in SimIds : SimMin(i)
    \/ \E i \in SimIds : SimMax(i)
    \/ \E i \in SimIds : SimGetPower(i)
    \/ \E i \in SimIds : SimDestroy(i)

\* ---- the facade over the driver: BaseStructure objects created, used, destroyed ----
NextHw ==
    \/ \E i \in StructIds, env \in PowerEnvs : HwCreate(i, env)
    \/ \E i \in StructIds, env \in PowerEnvs : HwDestroy(i, env)
    \/ \E i \in StructIds : HwGetPower(i)
    \/ \E i \in StructIds, k \in HwKeys, v \in HwValues, env \in PowerEnvs : HwInsert(i, k, v, env)
    \/ \E i \in StructIds, vec \in SeqsUpTo(InsertStruct, MaxBatch) :
          \E envs \in BatchEnvs(Len(vec)) : HwInsertVector(i, vec, envs)
    \/ \E i \in StructIds, k \in HwKeys, env \in PowerEnvs : HwDel(i, k, env)
    \/ \E i \in StructIds, k \in HwKeys, env \in CallEnvs : HwSearch(i, k, env)
    \/ \E i \in StructIds, env \in CallEnvs : HwMin(i, env)
    \/ \E i \in StructIds, env \in CallEnvs : HwMax(i, env)
    \/ \E i \in StructIds, k \in HwKeys, env \in PowerEnvs : HwNext(i, k, env)
    \/ \E i \in StructIds, k \in HwKeys, env \in PowerEnvs : HwPrev(i, k, env)
    \/ \E i \in StructIds, k \in HwKeys, env \in PowerEnvs : HwNsm(i, k, env)
    \/ \E i \in StructIds, k \in HwKeys, env \in PowerEnvs : HwNgr(i, k, env)

InitSim == KeyIdle /\ SimIdle /\ HwIdle /\ XIdle /\ BIdle /\ backend = "sim"
SpecSim == InitSim /\ [][NextSim]_vars

InitHw == KeyIdle /\ SimIdle /\ HwIdle /\ XIdle /\ BIdle /\ backend = "hw"
SpecHw == InitHw /\ [][NextHw]_vars

\* ---- SpecCmd: one execute_cmd call on an enumerated command and environment ----
InitCmd == KeyIdle /\ SimIdle /\ HwIdle /\ XCalled /\ BIdle /\ backend = "drv"

\* The statements of the calling thread.
XStep ==
    \/ XAllocRslt
    \/ XAdds
    \/ XInitBurstW
    \/ XInitBurstR
    \/ XBurstWrite
    \/ XPoll
    \/ XBurstRead
    \/ XFree

NextCmd ==
    \/ XAllocRslt
    \/ XAdds
    \/ XInitBurstW
    \/ XInitBurstR
    \/ XBurstWrite
    \/ XPoll
    \/ SpuCompletes
    \/ XBurstRead
    \/ XFree

SpecCmd == InitCmd /\ [][NextCmd]_vars

\* The calling thread keeps running (the call is synchronous and is not
\* preempted for ever); nothing is assumed of the device.
SpecCmdLive == InitCmd /\ [][NextCmd]_vars /\ WF_vars(XStep)

\* ---- the program over either backend, selected at construction ----
Init == KeyIdle /\ SimIdle /\ HwIdle /\ XIdle /\ BIdle /\ backend \in {"sim", "hw"}
Next ==
    \/ \E i \in SimIds : SimCreate(i)
    \/ \E i, j \in SimIds : SimCopy(i, j)
    \/ \E i \in SimIds, k \in SimKeys, v \in SimValues : SimInsert(i, k, v)
    \/ \E i \in SimIds, k \in SimKeys : SimDel(i, k)
    \/ \E i \in SimIds, k \in SimKeys : SimSearch(i, k)
    \/ \E i \in SimIds : SimMin(i)
    \/ \E i \in SimIds : SimMax(i)
    \/ \E i \in SimIds : SimGetPower(i)
    \/ \E i \in SimIds : SimDestroy(i)
    \/ \E i \in StructIds, env \in PowerEnvs : HwCreate(i, env)
    \/ \E i \in StructIds, env \in PowerEnvs : HwDestroy(i, env)
    \/ \E i \in StructIds : HwGetPower(i)
    \/ \E i \in StructIds, k \in HwKeys, v \in HwValues, env \in PowerEnvs : HwInsert(i, k, v, env)
    \/ \E i \in StructIds, vec \in SeqsUpTo(InsertStruct, MaxBatch) :
          \E envs \in BatchEnvs(Len(vec)) : HwInsertVector(i, vec, envs)
    \/ \E i \in StructIds, k \in HwKeys, env \in PowerEnvs : HwDel(i, k, env)
    \/ \E i \in StructIds, k \in HwKeys, env \in CallEnvs : HwSearch(i, k, env)
    \/ \E i \in StructIds, env \in CallEnvs : HwMin(i, env)
    \/ \E i \in StructIds, env \in CallEnvs : HwMax(i, env)
    \/ \E i \in StructIds, k \in HwKeys, env \in PowerEnvs : HwNext(i, k, env)
    \/ \E i \in StructIds, k \in HwKeys, env \in PowerEnvs : HwPrev(i, k, env)
    \/ \E i \in StructIds, k \in HwKeys, env \in PowerEnvs : HwNsm(i, k, env)
    \/ \E i \in StructIds, k \in HwKeys, env \in PowerEnvs : HwNgr(i, k, env)
Spec == Init /\ [][Next]_vars

(***************************************************************************)
(* Properties of key compilation (checked under SpecKey).                  *)
(***************************************************************************)
\* The value compileKey uses for field i: the looked-up data masked to the width.
MaskedValue(flv, fdv, i) == find_data_by_name(fdv, flv[i].name) \cap mask(flv[i].length)

\* C5: round trip.  For a schema of total width at most SPU_WEIGHT*32 compiled
\* into an all-zero key array, every field read back from the packed words at
\* its cumulative bit offset equals its supplied value masked to its width.
C5_RoundTrip ==
    (kpc = "done" /\ key_before = ZeroKey
        /\ TotalWidth(fields_len_vec) <= SPU_WEIGHT * WordBits)
    => \A i \in 1 .. Len(fields_len_vec) :
          ExtractField(key, FieldOffset(fields_len_vec, i), fields_len_vec[i].length)
            = MaskedValue(fields_len_vec, fields_data_vector, i)

\* C6: the schema [{A,20},{B,20}] with weight 2, compiled into a zero array:
\* word 0 bits 0-19 hold A, word 0 bits 20-31 hold bits 0-11 of B and
\* word 1 bits 0-7 hold bits 12-19 of B.
C6_StraddleLayout ==
    (kpc = "done" /\ key_before = ZeroKey
        /\ fields_len_vec = <<[name |-> "A", length |-> 20], [name |-> "B", length |-> 20]>>)
    => LET a == MaskedValue(fields_len_vec, fields_data_vector, 1)
           b == MaskedValue(fields_len_vec, fields_data_vector, 2)
       IN  /\ key[0] \cap (0 .. 19) = a
           /\ {p - 20 : p \in key[0] \cap (20 .. 31)} = b \cap (0 .. 11)
           /\ {p + 12 : p \in key[1] \cap (0 .. 7)} = b \cap (12 .. 19)

\* C7: the output is a function of (schema, values) alone, whatever key[] held
\* before the call, and every bit above the total declared width is zero.
C7_PureAndHighBitsZero ==
    kpc = "done"
    => /\ compileKey(ZeroKey, fields_len_vec, fields_data_vector) = {key}
       /\ \A p \in 0 .. (SPU_WEIGHT * WordBits - 1) :
             p >= TotalWidth(fields_len_vec) => ~BitAt(key, p)

\* The data of the entry of lowest index named n, the zero word without one.
FirstMatch(fdv, n) ==
    LET hits == {i \in 1 .. Len(fdv) : fdv[i].name = n}
    IN  IF hits = {} THEN Word0
        ELSE fdv[CHOOSE i \in hits : \A j \in hits : i <= j].data

\* The widest field of the schema named n.
WidestOf(flv, n) ==
    LET ws == {flv[i].length : i \in {j \in 1 .. Len(flv) : flv[j].name = n}}
    IN  CHOOSE w \in ws : \A v \in ws : v <= w

\* The value set reduced to what the claim says is used: one entry per name of
\* the schema, holding the first match cut to the widest field of that name,
\* the zero word when the values have no such name; no other entry.
UsedEntry(flv, fdv, n) ==
    IF \E i \in 1 .. Len(flv) : flv[i].name = n
    THEN <<[name |-> n, data |-> FirstMatch(fdv, n) \cap (0 .. (WidestOf(flv, n) - 1))]>>
    ELSE <<>>
UsedValues(flv, fdv) == UsedEntry(flv, fdv, "A") \o UsedEntry(flv, fdv, "B")

\* C23: compileKey uses, for each field of the schema, the data of the first
\* entry of the values with the field's name, masked to the field's width; a
\* field without such an entry contributes zero bits; entries named by no
\* field change nothing.  compileKey returns true.
C23_FirstMatchMasked ==
    kpc = "done"
    => /\ kret = TRUE
       /\ compileKey(key_before, fields_len_vec, fields_data_vector)
            = compileKey(key_before, fields_len_vec,
                         UsedValues(fields_len_vec, fields_data_vector))
       /\ (Len(fields_len_vec) = 1 /\ key_before = ZeroKey)
            => key = [ZeroKey EXCEPT ![0] =
                        FirstMatch(fields_data_vector, fields_len_vec[1].name)
                          \cap (0 .. (fields_len_vec[1].length - 1))]

\* Witness of C23: compiled from values with two entries of one name and
\* different data, over a schema that also has a field the values do not name.
C23_Witness ==
    /\ kpc = "done"
    /\ Len(fields_data_vector) = 2
    /\ fields_data_vector[1].name = "A" /\ fields_data_vector[2].name = "A"
    /\ fields_data_vector[1].data # fields_data_vector[2].data
    /\ {fields_len_vec[i].name : i \in 1 .. Len(fields_len_vec)} = {"A", "B"}

(***************************************************************************)
(* Properties of the simulation backend (checked under SpecSim).           *)
(***************************************************************************)
\* The map the Simulator of the last operation works on.
LastSimData == sim_heap[sims[sim_last.inst].data]
\* History: for each key put in and not deleted since, the value last inserted.
LastSimInserted == sim_inserted[sims[sim_last.inst].data]

SmallestOf(S) == CHOOSE x \in S : \A y \in S : x <= y
LargestOf(S)  == CHOOSE x \in S : \A y \in S : x >= y

\* C1: in the state right after insert(k, v), search(k) returns (k, v, OK);
\* in the state right after del(k), search(k) returns status ERR.
C1_InsertSearchDel ==
    /\ sim_last.op = "insert"
         => Simulator_search(LastSimData, sim_last.key) = PairOf(sim_last.key, sim_last.value)
    /\ sim_last.op = "del"
         => Simulator_search(LastSimData, sim_last.key).status = ERR

\* Witness of C1: an insert into a structure that holds other keys, after an
\* earlier structure was destroyed.
C1_Witness ==
    /\ sim_last.op = "insert" /\ sim_last.value = 20
    /\ Cardinality(DOMAIN LastSimData) >= 2
    /\ sim_destroyed # {}

\* C2: min() returns the smallest key present and max() the largest, each with
\* status OK and the value last inserted for that key; on an empty structure
\* both return status ERR.
C2_MinMax ==
    /\ sim_last.op = "min" =>
         IF DOMAIN LastSimInserted = {} THEN sim_last.res.status = ERR
         ELSE /\ sim_last.res.status = OK
              /\ sim_last.res.key = SmallestOf(DOMAIN LastSimInserted)
              /\ sim_last.res.value = LastSimInserted[sim_last.res.key]
    /\ sim_last.op = "max" =>
         IF DOMAIN LastSimInserted = {} THEN sim_last.res.status = ERR
         ELSE /\ sim_last.res.status = OK
              /\ sim_last.res.key = LargestOf(DOMAIN LastSimInserted)
              /\ sim_last.res.value = LastSimInserted[sim_last.res.key]

\* Witness of C2: min() on a structure whose smallest key carries the larger
\* value, with all keys present.
C2_Witness ==
    /\ sim_last.op = "min"
    /\ DOMAIN LastSimInserted = SimKeys
    /\ sim_last.res.key = 1 /\ sim_last.res.value = 20
    /\ LastSimInserted[2] = 10

\* C8: the identifiers issued are strictly increasing (hence pairwise distinct);
\* an identifier deleteStructure removed is not in the global table, and no
\* later create issues it again.
C8_NoAliasing ==
    /\ \A a, b \in 1 .. Len(sim_issued) : a < b => sim_issued[a] < sim_issued[b]
    /\ \A g \in sim_destroyed : g \notin DOMAIN globalStructures
    /\ sim_last.op = "create" => sims[sim_last.inst].gsid \notin sim_destroyed

\* Witness of C8: a create after an earlier structure was destroyed, while a
\* copy of the destroyed Simulator still carries the removed identifier.
C8_Witness ==
    /\ sim_last.op = "create"
    /\ sim_destroyed # {}
    /\ \E i \in LiveSims : sims[i].gsid \in sim_destroyed

\* C9: destroy removes the identifier's mapping and returns the number of
\* elements the structure held when it was destroyed.
C9_DestroyReturnsPower ==
    sim_last.op = "destroy"
    => /\ sim_last.key \notin DOMAIN globalStructures
       /\ sim_last.res.power = sim_last.was

\* The live Simulators that hold the identifier of the last operation's.
SameGsid == {j \in LiveSims : sims[j].gsid = sims[sim_last.inst].gsid}

\* C15: Simulators that hold the same identifier work on one map: after an
\* insert or a del through one of them, search, min, max and get_power on
\* every other one with that identifier observe it, in every reachable state.
C15_SharedMap ==
    /\ \A i, j \in LiveSims :
          sims[i].gsid = sims[j].gsid => sims[i].data = sims[j].data
    /\ sim_last.op \in {"insert", "del"} =>
         \A j \in SameGsid :
            LET d == sim_heap[sims[j].data] IN
            /\ sim_last.op = "insert"
                 => Simulator_search(d, sim_last.key) = PairOf(sim_last.key, sim_last.value)
            /\ sim_last.op = "del" => Simulator_search(d, sim_last.key).status = ERR
            /\ Simulator_get_power(d) = Cardinality(DOMAIN LastSimInserted)
            /\ Simulator_min(d) = Simulator_min(LastSimData)
            /\ Simulator_max(d) = Simulator_max(LastSimData)

\* Witness of C15: an insert through one Simulator while another live one holds
\* the same identifier, the map holding other keys already.
C15_Witness ==
    /\ sim_last.op = "insert"
    /\ SameGsid \ {sim_last.inst} # {}
    /\ Cardinality(DOMAIN LastSimData) >= 2

\* C16: get_power() returns the number of distinct keys present; an insert of
\* a key already present overwrites its value and leaves the power unchanged,
\* an insert of a new key raises it by one, a del of a present key lowers it
\* by one.
C16_PowerCountsKeys ==
    [][LET p      == sims[sim_last'.inst].data
           k      == sim_last'.key
           before == Simulator_get_power(sim_heap[p])
           after  == Simulator_get_power(sim_heap'[p])
       IN  /\ sim_last'.op = "get_power"
                => sim_last'.res.power = Cardinality(DOMAIN sim_inserted[p])
           /\ sim_last'.op = "insert"
                => /\ sim_heap'[p][k] = sim_last'.value
                   /\ after = IF k \in DOMAIN sim_inserted[p] THEN before ELSE before + 1
           /\ sim_last'.op = "del"
                => after = IF k \in DOMAIN sim_inserted[p] THEN before - 1 ELSE before]_vars

\* Witness of C16: get_power() returning 2 on a map whose two keys carry the
\* same value.
C16_Witness ==
    /\ sim_last.op = "get_power" /\ sim_last.res.power = 2
    /\ DOMAIN LastSimData = {1, 3}
    /\ \A x \in DOMAIN LastSimData : LastSimData[x] = 10

\* C25: del(k) of a key the structure does not hold returns OK and leaves the
\* stored pairs and get_power() as they were; an insert or del of k leaves the
\* pair of every other key as it was.
C25_OtherKeysUntouched ==
    [][LET p      == sims[sim_last'.inst].data
           k      == sim_last'.key
           before == sim_heap[p]
           after  == sim_heap'[p]
       IN  /\ (sim_last'.op = "del" /\ k \notin DOMAIN before)
                => /\ sim_last'.res.status = OK
                   /\ after = before
                   /\ Simulator_get_power(after) = Simulator_get_power(before)
           /\ sim_last'.op \in {"insert", "del"}
                => /\ DOMAIN after \ {k} = DOMAIN before \ {k}
                   /\ \A x \in DOMAIN before \ {k} : after[x] = before[x]]_vars

\* Witness of C25: a del that left the number of keys as it was, on a map
\* holding two keys.
C25_Witness ==
    /\ sim_last.op = "del"
    /\ sim_last.was = Cardinality(DOMAIN LastSimData)
    /\ Cardinality(DOMAIN LastSimData) = 2

(***************************************************************************)
(* Properties of the facade over the driver (checked under SpecHw).        *)
(***************************************************************************)
\* The device structure after the first m entries of vec were inserted in order.
RECURSIVE Applied(_, _, _)
Applied(str, vec, m) ==
    IF m = 0 THEN str
    ELSE LET prev == Applied(str, vec, m - 1)
         IN  [x \in DOMAIN prev \cup {vec[m].key} |->
                 IF x = vec[m].key THEN vec[m].value ELSE prev[x]]

\* What one batched insert did: the commands it issued are the leading entries
\* of the vector, as single inserts, in vector order; all but the last
\* returned OK; it returned OK exactly when every entry was issued and
\* returned OK, and the status of the last issued entry otherwise; the
\* structure holds what it held plus the entries that returned OK.
BatchOutcome(vec, ret, tr, before, after) ==
    LET n == Len(tr)
    IN  /\ n <= Len(vec)
        /\ \A j \in 1 .. n :
              tr[j].cmd = "INS" /\ tr[j].key = vec[j].key /\ tr[j].val = vec[j].value
        /\ \A j \in 1 .. (n - 1) : tr[j].rslt = OK
        /\ (ret = OK) <=> (n = Len(vec) /\ \A j \in 1 .. n : tr[j].rslt = OK)
        /\ ret # OK => (n >= 1 /\ tr[n].rslt = ret)
        /\ after = Applied(before, vec, IF ret = OK THEN n ELSE n - 1)

\* C3: a batched insert applies its entries as single inserts in vector order,
\* stops at the first entry whose insert returns a non-OK status and returns
\* that status; the entries before it stay inserted, the entries after it are
\* never issued, and OK is returned only when every entry returned OK.
C3_BatchedInsert ==
    [][hw_last'.op = "insert_vector"
         => BatchOutcome(hw_last'.vec, hw_last'.ret, world'.trace,
                         StrOf(world, structs[hw_last'.inst]),
                         StrOf(world', structs'[hw_last'.inst]))]_vars

\* Witness of C3: a batch of two entries with different keys whose second
\* insert failed: the first entry is in the structure, the second is not.
C3_Witness ==
    /\ hw_last.op = "insert_vector" /\ hw_last.ret # OK
    /\ Len(hw_last.vec) = 2 /\ Len(world.trace) = 2
    /\ hw_last.vec[1].key # hw_last.vec[2].key
    /\ world.trace[1].rslt = OK /\ world.trace[2].rslt # OK
    /\ hw_last.vec[1].key \in DOMAIN StrOf(world, structs[hw_last.inst])
    /\ hw_last.vec[2].key \notin DOMAIN StrOf(world, structs[hw_last.inst])

\* C10: a search that execute_cmd ran on the bus for a key that is not in the
\* structure reports status ERR to the caller.
C10_AbsenceIsErr ==
    (hw_last.op = "search" /\ hw_last.bus /\ ~hw_last.present)
    => hw_last.ret = ERR

\* The operations that run one key command.
CommandOps == {"insert", "del", "search", "min", "max", "next", "prev", "nsm", "ngr"}

\* C14: after every operation that executes a command (insert, del, search,
\* min, max, next, prev, nsm, ngr, and the DELS of the destructor) the cached
\* power equals the power field of that operation's result, whatever its
\* status; get_power() issues no command and returns the cached value, which
\* it leaves unchanged.
C14_PowerCache ==
    [][/\ hw_last'.op \in CommandOps
            => BaseStructure_get_power(structs'[hw_last'.inst]) = hw_last'.res.power
       /\ hw_last'.op = "destroy" => hw_last'.cached = hw_last'.res.power
       /\ hw_last'.op = "get_power"
            => /\ world'.trace = <<>>
               /\ world'.dev = world.dev /\ world'.gsids = world.gsids
               /\ structs' = structs
               /\ hw_last'.res.power = BaseStructure_get_power(structs[hw_last'.inst])]_vars

\* Witness of C14: a neighbour query that came back with status ERR and a
\* non-zero power field, which the object now caches.
C14_Witness ==
    /\ hw_last.op = "ngr" /\ hw_last.ret = ERR
    /\ hw_last.res.power # 0
    /\ structs[hw_last.inst].power = hw_last.res.power

(***************************************************************************)
(* Properties of both backends (checked under Spec).                       *)
(***************************************************************************)
\* C4: in the state right after a structure was successfully created, before
\* any other operation on it, get_power() returns 0 (Simulator and
\* BaseStructure alike).
C4_PowerZeroAfterCreate ==
    /\ (sim_last.op = "create" /\ sim_last.res.status = OK)
         => Simulator_get_power(LastSimData) = 0
    /\ (hw_last.op = "create" /\ hw_last.ret = OK)
         => BaseStructure_get_power(structs[hw_last.inst]) = 0

\* Witness of C4: a BaseStructure created from a result buffer whose power
\* field held a non-zero word, while an earlier identifier is gone.
C4_Witness ==
    /\ hw_last.op = "create" /\ hw_last.ret = OK
    /\ hw_last.res.power # 0
    /\ structs[hw_last.inst].gsid >= 2

(***************************************************************************)
(* Properties of execute_cmd (checked under SpecCmd and SpecCmdLive).      *)
(***************************************************************************)
\* The call is past init_burst_w.
PastInitW == x_pc \in {"init_r", "write", "poll", "read", "free", "returned", "oops"}
                /\ x_cmd.cmd # "ADDS"

\* C11: when an identifier the command's layout carries does not resolve (A, B
\* or R of the three-identifier layout, A or R of the two-identifier layout),
\* init_burst_w fails and the command is not executed.
C11_UnresolvedFails ==
    (PastInitW /\ ~(Carried(x_cmd) \subseteq XBound))
    => (x_w.err # "none" /\ x_bus = <<>>)

\* C12: when init_burst_w or init_burst_r fails (unresolvable identifier,
\* unknown command, allocation failure), execute_cmd returns an error and the
\* call has no bus activity: no burst write, no status read, no burst read.
C12_FailureBeforeBus ==
    (x_w.err # "none" \/ x_r.err # "none")
    => (x_pc = "returned" /\ x_ret = "-ENOMEM" /\ x_bus = <<>>)

\* Witness of C12: the write burst was built and the read burst's allocation
\* failed.
C12_Witness ==
    /\ x_pc = "returned"
    /\ x_w.err = "none" /\ x_w.burst # <<>>
    /\ x_r.err = "ENOMEM"

\* C13: when execute_cmd returns, on whichever path, every burst array it
\* allocated during the call (address and data arrays of the write burst and
\* of the read burst) has been released.
C13_BuffersReleased ==
    x_pc = "returned" => x_heap \cap BurstBuffers = {}

\* The call went over the bus and its read burst came back.
ReadBack == x_bus # <<>> /\ x_bus[Len(x_bus)] = "read"

\* C17: after the decode, the result's power is the last word of the read
\* burst's data (index count-1, count being the burst's length) for both
\* result formats; the key words are data[0 .. weight-1] and the value words
\* data[weight .. 2*weight-1].
C17_PowerIsLastWord ==
    (ReadBack /\ x_pc \in {"free", "returned"})
    => /\ x_res.buf.power = x_r.data[Len(x_r.data)]
       /\ x_cmd.cmd \in RsltFrmt2
            => /\ x_res.buf.key = [i \in 1 .. SPU_WEIGHT |-> x_r.data[i]]
               /\ x_res.buf.val = [i \in 1 .. SPU_WEIGHT |-> x_r.data[i + SPU_WEIGHT]]

\* The order of the bus events of one call: the burst write first, then reads
\* of the status register that found the device busy, then one that found it
\* ready, then the burst read, last.
BusOrder(bus) ==
    \A i \in 1 .. Len(bus) :
       /\ bus[i] = "write" <=> i = 1
       /\ bus[i] \in {"status_busy", "status_ready"}
            => \A j \in 2 .. i - 1 : bus[j] = "status_busy"
       /\ bus[i] = "read" => (i = Len(bus) /\ i >= 3 /\ bus[i - 1] = "status_ready")

\* C18: in every call that reaches the bus the events are one burst write,
\* then one or more reads of the status register, then one burst read; the
\* burst read comes only after a status read that observed the ready bit.
C18_BusOrder ==
    /\ BusOrder(x_bus)
    /\ (x_bus # <<>> /\ x_pc \in {"free", "returned", "oops"}) => ReadBack

\* Witness of C18: the burst read came back after the status register was
\* found busy at least once.
C18_Witness ==
    /\ x_pc = "free" /\ ReadBack
    /\ BusyPolls(x_bus) >= 1

\* C19: the poll has no bound.  The call is past the poll only if a status
\* read observed the ready bit; while the ready bit stays clear the call stays
\* in the poll, however many reads it has made; once the device is ready the
\* polling call terminates.
C19_PollUnbounded ==
    /\ [](((x_pc \in {"read", "free"}) \/ (x_pc \in {"returned", "oops"} /\ x_bus # <<>>))
            => Polls(x_bus, "status_ready") = 1)
    /\ [][(x_pc = "poll" /\ ~x_spu.ready /\ ~x_spu'.ready) => x_pc' = "poll"]_vars
    /\ ((x_pc = "poll" /\ x_spu.ready) ~> (x_pc \in {"returned", "oops"}))

\* Witness of C19: the call returned, its buffers released, after the status
\* register was found busy MaxPolls times.
C19_Witness ==
    /\ x_pc = "returned" /\ x_ret = "rslt_size"
    /\ BusyPolls(x_bus) = MaxPolls
    /\ x_heap \cap BurstBuffers = {}

\* The registry issued an identifier during the call.
Issued == DOMAIN x_world.gsids # XBound

\* C20: an ADDS call has no bus activity and allocates no burst buffer; the
\* device is left alone.  Its result's status is OK exactly when the registry
\* issued an identifier and ERR otherwise, and the facade constructor throws
\* CouldNotCreateStructure exactly in the latter case.
C20_AddsNoBus ==
    (x_cmd.cmd = "ADDS" /\ x_pc = "returned")
    => /\ x_bus = <<>>
       /\ x_ever \cap BurstBuffers = {}
       /\ x_spu.ready /\ \A a \in Registers : x_spu.regs[a] = x_env.stale
       /\ x_res.buf.rslt = IF Issued THEN OK ELSE ERR
       /\ Issued => x_res.buf.gsid \in DOMAIN x_world.gsids \ XBound
       /\ BaseStructure_ctor_result([res |-> x_res.buf, bus |-> FALSE,
                                     w |-> x_world]).thrown = ~Issued

\* Witness of C20: an ADDS call returned after the registry issued nothing.
C20_Witness ==
    /\ x_cmd.cmd = "ADDS" /\ x_pc = "returned"
    /\ ~Issued
    /\ x_res.buf.rslt = ERR

\* C21: the write burst has the length of the command's layout (2*weight+1
\* with key and value, weight+1 with a key, 1 with identifiers only), the key
\* words first at KEY_REG+0 .. weight-1 in ascending order, then the value
\* words at VAL_REG+0 .. weight-1 when the layout carries a value, and last the
\* command word, the command code with the resolved slot, addressed to CMD_REG.
C21_BurstLayout ==
    (PastInitW /\ x_w.err = "none")
    => LET b == x_w.burst
           c == x_cmd.cmd
           n == Len(b)
       IN  /\ n = IF c \in CmdFrmt1 THEN 2 * SPU_WEIGHT + 1
                  ELSE IF c \in CmdFrmt2 THEN SPU_WEIGHT + 1
                  ELSE 1
           /\ b[n].addr = CMD_REG
           /\ b[n].data.cmd = c
           /\ b[n].data.str = 1
           /\ c \in CmdFrmt1 \cup CmdFrmt2
                => \A i \in 1 .. SPU_WEIGHT :
                      b[i].addr = KEY_REG(i - 1) /\ b[i].data = x_cmd.key[i]
           /\ c \in CmdFrmt1
                => \A i \in 1 .. SPU_WEIGHT :
                      /\ b[SPU_WEIGHT + i].addr = VAL_REG(i - 1)
                      /\ b[SPU_WEIGHT + i].data = x_cmd.val[i]

\* Witness of C21: the burst of an INS of key <<0, 1>> was written to the bus.
C21_Witness ==
    /\ x_cmd.cmd = "INS" /\ x_cmd.key = <<0, 1>>
    /\ x_w.err = "none" /\ Len(x_w.burst) = 2 * SPU_WEIGHT + 1
    /\ x_bus # <<>>

\* C24: a result buffer whose allocation failed (no result format for the
\* command, or kmalloc returning NULL) is never written: neither by adds nor by
\* the decode of the read burst; the call returns an error.
C24_FailedBufferUnused ==
    /\ x_pc # "oops"
    /\ (x_pc = "returned" /\ x_res.null) => x_ret = "-ENOMEM"

(***************************************************************************)
(* Two calls on one bus (checked under SpecBus).                           *)
(***************************************************************************)
NextBus ==
    \/ \E p \in Procs : BEnter(p)
    \/ \E p \in Procs : BWrite(p)
    \/ \E p \in Procs : BPoll(p)
    \/ BDevice
    \/ \E p \in Procs : BRead(p)

InitBus == KeyIdle /\ SimIdle /\ HwIdle /\ XIdle /\ BCalled /\ backend = "bus"
SpecBus == InitBus /\ [][NextBus]_vars

\* The burst write of one call lies between the burst write and the burst read
\* of the other.
Interleaved(bus) ==
    \E i, j, k \in 1 .. Len(bus) :
       /\ i < j /\ j < k
       /\ bus[i][2] = "write" /\ bus[j][2] = "write" /\ bus[k][2] = "read"
       /\ bus[i][1] = bus[k][1] /\ bus[j][1] # bus[i][1]

\* C22: execute_cmd takes no lock.  When every call is serialised by one
\* external lock, no burst write of one call comes between the burst write and
\* the burst read of the other, and each call decodes the registers its own
\* command produced; without serialisation the interleaving is reachable (the
\* witness).
C22_SerialisedCallsDoNotInterleave ==
    b_serial => (~Interleaved(b_bus) /\ \A p \in Procs : ~b_res[p].foreign)

\* Witness of C22: without the lock, a SRCH whose burst read came after the
\* other call's burst write decoded the key the other call had written.
C22_Witness ==
    /\ ~b_serial
    /\ Interleaved(b_bus)
    /\ \E p \in Procs :
          /\ b_pc[p] = "done" /\ b_res[p].foreign
          /\ b_cmd[p].cmd = "SRCH"
          /\ b_res[p].buf.key # b_cmd[p].key

====
